---- MODULE Spec2Model ----
(***************************************************************************)
(* Environment-driven settings of ESIPie (src/src/esipie/config.py).       *)
(*                                                                         *)
(* Four settings groups (UAConfig, APIConfig, AuthConfig, CacheConfig) and *)
(* the aggregate Config are pydantic-settings BaseSettings classes.  The   *)
(* model keeps the declared schema (prefix, env_ignore_empty, field name,  *)
(* type, default, frozen) as data and the loader as operators over it:     *)
(* the environment is a partial map from variable names to strings, names  *)
(* are matched case-insensitively, values are coerced to the field's type, *)
(* and all field errors are collected before construction fails.           *)
(*                                                                         *)
(* Strings are TLA+ strings; Len, SubSeq and \o work on them, so case      *)
(* folding and integer parsing are computed character by character.        *)
(***************************************************************************)
EXTENDS Integers, Sequences, FiniteSets, TLC

VARIABLES
    test,       \* the test class the run belongs to; it fixes the class built
    environ,    \* os.environ: partial function variable name -> string
    config,     \* the object bound by  config = cls()  (NoConfig before)
    raised,     \* the exception of the last call (NoError when it returned)
    op          \* the last call made, with its arguments

vars == <<test, environ, config, raised, op>>

(***************************************************************************)
(* Bounds of the model.                                                    *)
(***************************************************************************)
\* longest ESIPIE_TIMEOUT_SECONDS value drawn from IntAlphabet
MaxLen == 2

(***************************************************************************)
(* Characters.                                                             *)
(***************************************************************************)
CharAt(s, i) == SubSeq(s, i, i)

ToLower ==
    [ A |-> "a", B |-> "b", C |-> "c", D |-> "d", E |-> "e", F |-> "f", G |-> "g",
      H |-> "h", I |-> "i", J |-> "j", K |-> "k", L |-> "l", M |-> "m", N |-> "n",
      O |-> "o", P |-> "p", Q |-> "q", R |-> "r", S |-> "s", T |-> "t", U |-> "u",
      V |-> "v", W |-> "w", X |-> "x", Y |-> "y", Z |-> "z" ]

DigitValue ==
    ("0" :> 0) @@ ("1" :> 1) @@ ("2" :> 2) @@ ("3" :> 3) @@ ("4" :> 4) @@
    ("5" :> 5) @@ ("6" :> 6) @@ ("7" :> 7) @@ ("8" :> 8) @@ ("9" :> 9)

\* str.lower() on one character
LowerChar(ch) == IF ch \in DOMAIN ToLower THEN ToLower[ch] ELSE ch

RECURSIVE Lower(_)
\* str.lower()
Lower(s) ==
    IF Len(s) = 0 THEN ""
    ELSE LowerChar(CharAt(s, 1)) \o Lower(SubSeq(s, 2, Len(s)))

(***************************************************************************)
(* The declared schema.  A field with no default is required.              *)
(***************************************************************************)
UAConfig ==
    [ model_config |-> [env_prefix |-> "ESIPIE_UA_", env_ignore_empty |-> TRUE],
      fields |-> <<
        [name |-> "app_name", type |-> "str", required |-> TRUE, frozen |-> TRUE],
        [name |-> "app_version", type |-> "str", required |-> TRUE, frozen |-> TRUE],
        [name |-> "contact_email", type |-> "str", required |-> TRUE, frozen |-> TRUE] >> ]

APIConfig ==
    [ model_config |-> [env_prefix |-> "ESIPIE_", env_ignore_empty |-> TRUE],
      fields |-> <<
        [name |-> "base_url", type |-> "str", required |-> FALSE,
         default |-> "https://esi.evetech.net", frozen |-> TRUE],
        [name |-> "timeout_seconds", type |-> "int", required |-> FALSE,
         default |-> 10, frozen |-> TRUE],
        [name |-> "compatibility_date", type |-> "str", required |-> FALSE,
         default |-> "2025-09-26", frozen |-> FALSE] >> ]

AuthConfig ==
    [ model_config |-> [env_prefix |-> "ESIPIE_", env_ignore_empty |-> TRUE],
      fields |-> <<
        [name |-> "sso_client_id", type |-> "str", required |-> TRUE, frozen |-> TRUE],
        [name |-> "sso_client_secret", type |-> "str", required |-> TRUE, frozen |-> TRUE],
        [name |-> "openapi_url", type |-> "str", required |-> FALSE,
         default |-> "https://esipie.api.esi.evetech.net/openapi.json", frozen |-> TRUE],
        [name |-> "client_tenant", type |-> "str", required |-> FALSE,
         default |-> "tranquility", frozen |-> TRUE] >> ]

\* variant: disable_cache defaults to true
CacheConfig_cache_off ==
    [ model_config |-> [env_prefix |-> "ESIPIE_", env_ignore_empty |-> TRUE],
      fields |-> <<
        [name |-> "redis_url", type |-> "str", required |-> FALSE,
         default |-> "redis://localhost:6379/0", frozen |-> TRUE],
        [name |-> "spec_cache_duration", type |-> "int", required |-> FALSE,
         default |-> 3600, frozen |-> FALSE],
        [name |-> "disable_cache", type |-> "bool", required |-> FALSE,
         default |-> TRUE, frozen |-> FALSE],
        [name |-> "cache_prefix", type |-> "str", required |-> FALSE,
         default |-> "esipie", frozen |-> TRUE] >> ]

CacheConfig ==
    [ model_config |-> [env_prefix |-> "ESIPIE_", env_ignore_empty |-> TRUE],
      fields |-> <<
        [name |-> "redis_url", type |-> "str", required |-> FALSE,
         default |-> "redis://localhost:6379/0", frozen |-> TRUE],
        [name |-> "spec_cache_duration", type |-> "int", required |-> FALSE,
         default |-> 3600, frozen |-> FALSE],
        [name |-> "disable_cache", type |-> "bool", required |-> FALSE,
         default |-> FALSE, frozen |-> FALSE],
        [name |-> "cache_prefix", type |-> "str", required |-> FALSE,
         default |-> "esipie", frozen |-> TRUE] >> ]

\* Config declares no model_config: BaseSettings' own defaults apply (no
\* prefix, empty values are not ignored).  Its fields are settings classes,
\* each with default_factory set to that class.
Config ==
    [ model_config |-> [env_prefix |-> "", env_ignore_empty |-> FALSE],
      fields |-> <<
        [name |-> "api", type |-> "APIConfig", required |-> FALSE, frozen |-> FALSE],
        [name |-> "auth", type |-> "AuthConfig", required |-> FALSE, frozen |-> FALSE],
        [name |-> "ua", type |-> "UAConfig", required |-> FALSE, frozen |-> FALSE],
        [name |-> "cache", type |-> "CacheConfig", required |-> FALSE, frozen |-> FALSE] >> ]

Groups == {"UAConfig", "APIConfig", "AuthConfig", "CacheConfig"}
Classes == Groups \cup {"Config"}

Schema(c) ==
    CASE c = "UAConfig" -> UAConfig
      [] c = "APIConfig" -> APIConfig
      [] c = "AuthConfig" -> AuthConfig
      [] c = "CacheConfig" -> CacheConfig
      [] c = "Config" -> Config

FieldSeq(c) == Schema(c).fields

\* the names of the fields fs, and the field of that name
NamesOf(fs) == {fs[i].name : i \in 1..Len(fs)}
IndexOf(fs, n) == CHOOSE i \in 1..Len(fs) : fs[i].name = n
FieldOf(c, n) == LET fs == Schema(c).fields IN fs[IndexOf(fs, n)]
FieldNames(c) == NamesOf(Schema(c).fields)

(***************************************************************************)
(* Inputs: the variables each run sets and the values it gives them.       *)
(***************************************************************************)
UpperChar(ch) ==
    IF \E u \in DOMAIN ToLower : ToLower[u] = ch
    THEN CHOOSE u \in DOMAIN ToLower : ToLower[u] = ch
    ELSE ch

RECURSIVE CaseVariants(_)
\* every spelling of a token in upper and lower case letters
CaseVariants(s) ==
    IF Len(s) = 0 THEN {""}
    ELSE {h \o t : h \in {CharAt(s, 1), UpperChar(CharAt(s, 1))},
                   t \in CaseVariants(SubSeq(s, 2, Len(s)))}

IntAlphabet == {"2", "-", "x"}

RECURSIVE StringsUpTo(_)
\* the strings over IntAlphabet of length at most n
StringsUpTo(n) ==
    IF n = 0 THEN {""}
    ELSE StringsUpTo(n - 1) \cup {s \o ch : s \in StringsUpTo(n - 1), ch \in IntAlphabet}

UAValues ==
    [ ESIPIE_UA_APP_NAME |-> {"", "TestApp", "x"},
      ESIPIE_UA_APP_VERSION |-> {"", "1.0.0"},
      ESIPIE_UA_CONTACT_EMAIL |-> {"", "test@example.com"} ]

APIValues ==
    [ ESIPIE_BASE_URL |-> {"", "https://custom.esi.net"},
      ESIPIE_TIMEOUT_SECONDS |-> StringsUpTo(MaxLen),
      ESIPIE_COMPATIBILITY_DATE |-> {"2025-10-01"} ]

AuthValues ==
    [ ESIPIE_SSO_CLIENT_ID |-> {"", "test_client_id"},
      ESIPIE_SSO_CLIENT_SECRET |-> {"", "test_client_secret"},
      ESIPIE_OPENAPI_URL |-> {"", "https://custom.openapi.json"},
      ESIPIE_CLIENT_TENANT |-> {"singularity"} ]

CacheValues ==
    [ ESIPIE_REDIS_URL |-> {"redis://remote:6379/1"},
      ESIPIE_SPEC_CACHE_DURATION |-> {"", "7200", "abc"},
      ESIPIE_DISABLE_CACHE |-> {"", "true", "False", "maybe"},
      ESIPIE_CACHE_PREFIX |-> {"", "custom_prefix"} ]

BooleanValues ==
    [ ESIPIE_DISABLE_CACHE |->
          CaseVariants("true") \cup CaseVariants("false") \cup {"", "1", "0", "maybe"} ]

MainValues ==
    [ ESIPIE_UA_APP_NAME |-> {"", "TestApp"},
      ESIPIE_SSO_CLIENT_ID |-> {"test_id"},
      ESIPIE_TIMEOUT_SECONDS |-> {"x"},
      ESIPIE_DISABLE_CACHE |-> {"true"},
      CACHE |-> {"{}", "x"},
      UA |-> {"{}", "7"} ]

\* the environment a TestMainConfig run starts from: every required
\* variable set (three of them are never touched)
MainFixed ==
    [ ESIPIE_UA_APP_NAME |-> "TestApp",
      ESIPIE_UA_APP_VERSION |-> "1.0.0",
      ESIPIE_UA_CONTACT_EMAIL |-> "test@example.com",
      ESIPIE_SSO_CLIENT_ID |-> "test_id",
      ESIPIE_SSO_CLIENT_SECRET |-> "test_secret" ]

Tests ==
    [ TestUAConfig |-> [cls |-> "UAConfig", values |-> UAValues],
      TestAPIConfig |-> [cls |-> "APIConfig", values |-> APIValues],
      TestAuthConfig |-> [cls |-> "AuthConfig", values |-> AuthValues],
      TestCacheConfig |-> [cls |-> "CacheConfig", values |-> CacheValues],
      TestCacheBoolean |-> [cls |-> "CacheConfig", values |-> BooleanValues],
      TestMainConfig |-> [cls |-> "Config", values |-> MainValues] ]

\* Lower on the names in use, folded once
KnownNames ==
    UNION {DOMAIN Tests[t].values : t \in DOMAIN Tests} \cup DOMAIN MainFixed
    \cup UNION {{Schema(c).model_config.env_prefix \o Schema(c).fields[i].name :
                    i \in 1..Len(Schema(c).fields)} : c \in Classes}

FoldedName == [s \in KnownNames |-> Lower(s)]

\* name.lower()
Fold(s) == IF s \in DOMAIN FoldedName THEN FoldedName[s] ELSE Lower(s)

(***************************************************************************)
(* The environment source.                                                 *)
(***************************************************************************)
\* variant: compatibility_date is bound to the variable of base_url
env_name_aliased(prefix, f) ==
    Fold(prefix \o (IF f.name = "compatibility_date" THEN "base_url" ELSE f.name))

\* The name a field is looked up under: prefix + field name, folded to
\* lower case because the classes keep case_sensitive at its default.
env_name(prefix, f) == Fold(prefix \o f.name)

\* variant: env_ignore_empty has no effect: empty values are kept
parse_env_vars_keep_empty(env_vars, ignore_empty) ==
    [n \in {Fold(k) : k \in DOMAIN env_vars} |->
        env_vars[CHOOSE k \in DOMAIN env_vars : Fold(k) = n]]

\* The environment as the source sees it: names folded to lower case, and
\* with env_ignore_empty the variables whose value is "" dropped.
parse_env_vars(env_vars, ignore_empty) ==
    LET kept == {k \in DOMAIN env_vars : ~(ignore_empty /\ env_vars[k] = "")}
    IN  [n \in {Fold(k) : k \in kept} |-> env_vars[CHOOSE k \in kept : Fold(k) = n]]

\* What the parsed environment `seen` holds for each field of fs, by position.
EnvSource(prefix, fs, seen) ==
    [i \in 1..Len(fs) |->
        IF env_name(prefix, fs[i]) \in DOMAIN seen
        THEN [found |-> TRUE, raw |-> seen[env_name(prefix, fs[i])]]
        ELSE [found |-> FALSE, raw |-> ""]]

(***************************************************************************)
(* Type coercion of a string taken from the environment.                   *)
(***************************************************************************)
IsDigits(s) == Len(s) > 0 /\ \A i \in 1..Len(s) : CharAt(s, i) \in DOMAIN DigitValue

RECURSIVE DigitsValue(_)
DigitsValue(s) ==
    IF Len(s) = 0 THEN 0
    ELSE 10 * DigitsValue(SubSeq(s, 1, Len(s) - 1)) + DigitValue[CharAt(s, Len(s))]

\* variant: a str field is normalised to lower case
str_validator_folded(raw) == [ok |-> TRUE, value |-> Lower(raw)]

\* str field: the string itself
str_validator(raw) == [ok |-> TRUE, value |-> raw]

\* int field: an optional sign and decimal digits
int_validator(raw) ==
    LET signed == Len(raw) > 0 /\ CharAt(raw, 1) \in {"-", "+"}
        body == IF signed THEN SubSeq(raw, 2, Len(raw)) ELSE raw
    IN  IF IsDigits(body)
        THEN [ok |-> TRUE,
              value |-> IF signed /\ CharAt(raw, 1) = "-"
                        THEN 0 - DigitsValue(body) ELSE DigitsValue(body)]
        ELSE [ok |-> FALSE, error |-> "int_parsing"]

BoolTrue == {"1", "on", "t", "true", "y", "yes"}
BoolFalse == {"0", "off", "f", "false", "n", "no"}

\* variant: the tokens are matched in lower case only
bool_validator_exact(raw) ==
    IF raw \in BoolTrue THEN [ok |-> TRUE, value |-> TRUE]
    ELSE IF raw \in BoolFalse THEN [ok |-> TRUE, value |-> FALSE]
    ELSE [ok |-> FALSE, error |-> "bool_parsing"]

\* bool field: one of the accepted tokens, in any letter case
bool_validator(raw) ==
    IF Lower(raw) \in BoolTrue THEN [ok |-> TRUE, value |-> TRUE]
    ELSE IF Lower(raw) \in BoolFalse THEN [ok |-> TRUE, value |-> FALSE]
    ELSE [ok |-> FALSE, error |-> "bool_parsing"]

validate_field(f, raw) ==
    CASE f.type = "str" -> str_validator(raw)
      [] f.type = "int" -> int_validator(raw)
      [] f.type = "bool" -> bool_validator(raw)

\* variant: a required field left unset is filled with the empty string
field_default_lenient(f) ==
    IF f.required THEN [ok |-> TRUE, value |-> ""]
    ELSE [ok |-> TRUE, value |-> f.default]

\* A field the sources gave no value: its default, or an error if required.
field_default(f) ==
    IF f.required THEN [ok |-> FALSE, error |-> "missing"]
    ELSE [ok |-> TRUE, value |-> f.default]

\* variant: validation stops at the first failed field
collect_errors_first(results) ==
    LET Failed(r) == ~r.res.ok
        bad == SelectSeq(results, Failed)
    IN  [i \in 1..1 |-> [loc |-> bad[i].name, type |-> bad[i].res.error]]

\* The errors of a validation, in field order: every failed field.
collect_errors(results) ==
    LET Failed(r) == ~r.res.ok
        bad == SelectSeq(results, Failed)
    IN  [i \in 1..Len(bad) |-> [loc |-> bad[i].name, type |-> bad[i].res.error]]

\* The outcome of validating every field: an instance holding each field's
\* value, or a ValidationError carrying every field error; never a partly
\* filled instance.
model_result(c, results) ==
    IF \A i \in 1..Len(results) : results[i].res.ok
    THEN [kind |-> "instance", cls |-> c,
          fields |-> [n \in NamesOf(results) |-> results[IndexOf(results, n)].res.value]]
    ELSE [kind |-> "ValidationError", title |-> c, errors |-> collect_errors(results)]

\* Validation of the fields fs against the source values src.
validate_model(c, fs, src) ==
    model_result(c,
        [i \in 1..Len(fs) |->
            [name |-> fs[i].name,
             res |-> IF src[i].found THEN validate_field(fs[i], src[i].raw)
                     ELSE field_default(fs[i])]])

\* c() for one of the four groups
NewGroup(c, env_vars) ==
    validate_model(c, Schema(c).fields,
        EnvSource(Schema(c).model_config.env_prefix, Schema(c).fields,
                  parse_env_vars(env_vars, Schema(c).model_config.env_ignore_empty)))

(***************************************************************************)
(* The aggregate.  Config is itself a BaseSettings class, so each of its   *)
(* fields is first looked up in the environment under its own name (api,   *)
(* auth, ua, cache: no prefix, any letter case).  A field of a model type  *)
(* is a complex field: a value found for it is decoded as JSON.            *)
(***************************************************************************)
\* json.loads on the values drawn here: {} is an object, an integer literal
\* or true/false/null a scalar, anything else (also "") is not JSON.
decode_complex_value(raw) ==
    IF raw = "{}" THEN "dict"
    ELSE IF (IsDigits(raw) /\ (Len(raw) = 1 \/ CharAt(raw, 1) # "0"))
            \/ raw \in {"true", "false", "null"}
         THEN "scalar"
         ELSE "invalid"

\* The outcome of Config() given what the environment source found (src)
\* and what each member's class built (member).  The source fails with
\* SettingsError on the first value found that is not JSON.  Validation
\* then takes the fields in order: the exception of a default_factory
\* propagates as raised; the errors of the members found in the
\* environment are collected.
config_result(fs, src, member) ==
    LET idx == 1..Len(fs)
        given == {i \in idx : src[i].found}
        undecodable == {i \in given : decode_complex_value(src[i].raw) = "invalid"}
        failed == {i \in idx : member[i].kind # "instance"}
        First(S) == CHOOSE i \in S : \A j \in S : i <= j
    IN  IF undecodable # {}
        THEN [kind |-> "SettingsError", field |-> fs[First(undecodable)].name]
        ELSE IF failed \ given # {}
        THEN member[First(failed \ given)]
        ELSE IF failed # {}
        THEN [kind |-> "ValidationError", title |-> "Config",
              errors |-> [k \in 1..Cardinality(failed) |->
                            [loc |-> fs[CHOOSE i \in failed :
                                          Cardinality({j \in failed : j < i}) = k - 1].name,
                             type |-> "member"]]]
        ELSE [kind |-> "instance", cls |-> "Config",
              fields |-> [n \in NamesOf(fs) |-> member[IndexOf(fs, n)]]]

\* Each member as its class builds it: from the environment, whether it
\* was found as {} (the class is called with no arguments) or is built by
\* its default_factory; a member found as a scalar is a model_type error.
config_members(fs, src, env_vars) ==
    config_result(fs, src,
        [i \in 1..Len(fs) |->
            IF src[i].found /\ decode_complex_value(src[i].raw) = "scalar"
            THEN [kind |-> "ValidationError", title |-> fs[i].type,
                  errors |-> <<[loc |-> "", type |-> "model_type"]>>]
            ELSE NewGroup(fs[i].type, env_vars)])

\* Config()
NewConfig(env_vars) ==
    config_members(Config.fields,
        EnvSource(Config.model_config.env_prefix, Config.fields,
                  parse_env_vars(env_vars, Config.model_config.env_ignore_empty)),
        env_vars)

\* c()
New(c, env_vars) == IF c = "Config" THEN NewConfig(env_vars) ELSE NewGroup(c, env_vars)

\* variant: no field is frozen
IsFrozen_never(c, n) == FALSE

\* setattr on a field declared with frozen=True is refused
IsFrozen(c, n) == FieldOf(c, n).frozen

\* attribute read
GetAttr(obj, n) == obj.fields[n]

(***************************************************************************)
(* The runs.                                                               *)
(***************************************************************************)
\* the class the run builds
cls == Tests[test].cls

TestValues == Tests[test].values

EmptyEnv == [n \in {} |-> ""]

InitialEnv(t) == IF t = "TestMainConfig" THEN MainFixed ELSE EmptyEnv

\* the values a run assigns to a field of the given type
AssignValues(c, f) ==
    CASE f.type = "str" -> {"changed"}
      [] f.type = "int" -> {0}
      [] f.type = "bool" -> {TRUE, FALSE}
      [] OTHER -> {m \in {NewGroup(f.type, environ)} : m.kind = "instance"}

(***************************************************************************)
(* State and operations.                                                   *)
(***************************************************************************)
NoConfig == [kind |-> "none"]
NoError == [kind |-> "none"]

Init ==
    /\ test \in DOMAIN Tests
    /\ environ = InitialEnv(test)
    /\ config = NoConfig
    /\ raised = NoError
    /\ op = [name |-> "start"]

\* variant: every instance is a live view of the environment
Setenv_live(n, v) ==
    /\ environ' = [k \in DOMAIN environ \cup {n} |-> IF k = n THEN v ELSE environ[k]]
    /\ raised' = NoError
    /\ op' = [name |-> "setenv", var |-> n]
    /\ config' = IF config.kind = "instance" /\ New(cls, environ').kind = "instance"
                  THEN New(cls, environ')
                  ELSE config
    /\ test' = test

\* monkeypatch.setenv(n, v)
Setenv(n, v) ==
    /\ environ' = [k \in DOMAIN environ \cup {n} |-> IF k = n THEN v ELSE environ[k]]
    /\ raised' = NoError
    /\ op' = [name |-> "setenv", var |-> n]
    /\ UNCHANGED <<test, config>>

\* monkeypatch.delenv(n, raising=False)
Delenv(n) ==
    /\ environ' = [k \in DOMAIN environ \ {n} |-> environ[k]]
    /\ raised' = NoError
    /\ op' = [name |-> "delenv", var |-> n]
    /\ UNCHANGED <<test, config>>

\* config = cls(): binds the new instance, or raises and binds nothing
Construct ==
    LET r == New(cls, environ)
    IN  /\ IF r.kind = "instance"
           THEN config' = r /\ raised' = NoError
           ELSE config' = config /\ raised' = r
        /\ op' = [name |-> "construct"]
        /\ UNCHANGED <<test, environ>>

\* config.n = v
Setattr(n, v) ==
    /\ config.kind = "instance"
    /\ IF IsFrozen(config.cls, n)
       THEN /\ raised' = [kind |-> "ValidationError", title |-> config.cls,
                          errors |-> <<[loc |-> n, type |-> "frozen_field"]>>]
            /\ config' = config
       ELSE /\ raised' = NoError
            /\ config' = [config EXCEPT !.fields[n] = v]
    /\ op' = [name |-> "setattr", field |-> n, value |-> v]
    /\ UNCHANGED <<test, environ>>

Next ==
    \/ \E n \in DOMAIN TestValues : \E v \in TestValues[n] : Setenv(n, v)
    \/ \E n \in DOMAIN TestValues : Delenv(n)
    \/ Construct
    \/ \E n \in FieldNames(cls) : \E v \in AssignValues(cls, FieldOf(cls, n)) : Setattr(n, v)

Spec == Init /\ [][Next]_vars

(***************************************************************************)
(* What the documentation states, for the properties below: the variable   *)
(* of each field, the required and the frozen fields, the defaults.        *)
(***************************************************************************)
EnvVar ==
    [ UAConfig |-> [ app_name |-> "ESIPIE_UA_APP_NAME",
                     app_version |-> "ESIPIE_UA_APP_VERSION",
                     contact_email |-> "ESIPIE_UA_CONTACT_EMAIL" ],
      APIConfig |-> [ base_url |-> "ESIPIE_BASE_URL",
                      timeout_seconds |-> "ESIPIE_TIMEOUT_SECONDS",
                      compatibility_date |-> "ESIPIE_COMPATIBILITY_DATE" ],
      AuthConfig |-> [ sso_client_id |-> "ESIPIE_SSO_CLIENT_ID",
                       sso_client_secret |-> "ESIPIE_SSO_CLIENT_SECRET",
                       openapi_url |-> "ESIPIE_OPENAPI_URL",
                       client_tenant |-> "ESIPIE_CLIENT_TENANT" ],
      CacheConfig |-> [ redis_url |-> "ESIPIE_REDIS_URL",
                        spec_cache_duration |-> "ESIPIE_SPEC_CACHE_DURATION",
                        disable_cache |-> "ESIPIE_DISABLE_CACHE",
                        cache_prefix |-> "ESIPIE_CACHE_PREFIX" ] ]

GroupVars == UNION {{EnvVar[g][n] : n \in DOMAIN EnvVar[g]} : g \in Groups}

Required ==
    [ UAConfig |-> {"app_name", "app_version", "contact_email"},
      APIConfig |-> {},
      AuthConfig |-> {"sso_client_id", "sso_client_secret"},
      CacheConfig |-> {} ]

Frozen ==
    [ UAConfig |-> {"app_name", "app_version", "contact_email"},
      APIConfig |-> {"base_url", "timeout_seconds"},
      AuthConfig |-> {"sso_client_id", "sso_client_secret", "openapi_url", "client_tenant"},
      CacheConfig |-> {"redis_url", "cache_prefix"} ]

Default ==
    [ UAConfig |-> [n \in {} |-> ""],
      APIConfig |-> [ base_url |-> "https://esi.evetech.net",
                      timeout_seconds |-> 10,
                      compatibility_date |-> "2025-09-26" ],
      AuthConfig |-> [ openapi_url |-> "https://esipie.api.esi.evetech.net/openapi.json",
                       client_tenant |-> "tranquility" ],
      CacheConfig |-> [ redis_url |-> "redis://localhost:6379/0",
                        spec_cache_duration |-> 3600,
                        disable_cache |-> FALSE,
                        cache_prefix |-> "esipie" ] ]

IntFields == {"timeout_seconds", "spec_cache_duration"}
BoolFields == {"disable_cache"}

\* the integers whose decimal spelling is among the values drawn
IntCandidates == {2, 22, 222, 0 - 2, 0 - 22, 7200}
IsIntLiteral(raw) == \E k \in IntCandidates : ToString(k) = raw
IntOf(raw) == CHOOSE k \in IntCandidates : ToString(k) = raw

TrueLiterals == CaseVariants("true") \cup {"1"}
FalseLiterals == CaseVariants("false") \cup {"0"}

\* the variable of field n of group g is set, to a non-empty value
Present(g, n) == EnvVar[g][n] \in DOMAIN environ /\ environ[EnvVar[g][n]] # ""
Provided(g, n) == environ[EnvVar[g][n]]

\* the value field n must have when its variable holds raw
Coerced(n, raw) ==
    IF n \in IntFields THEN IntOf(raw)
    ELSE IF n \in BoolFields THEN raw \in TrueLiterals
    ELSE raw

Coercible(n, raw) ==
    IF n \in IntFields THEN IsIntLiteral(raw)
    ELSE IF n \in BoolFields THEN raw \in TrueLiterals \cup FalseLiterals
    ELSE TRUE

\* the fields of group g at fault in the current environment
Faulty(g) ==
    {n \in Required[g] : ~Present(g, n)}
    \cup {n \in DOMAIN EnvVar[g] : Present(g, n) /\ ~Coercible(n, Provided(g, n))}

Constructed == op.name = "construct"
Built == Constructed /\ raised = NoError /\ config.kind = "instance" /\ config.cls = cls
Failed == Constructed /\ raised.kind = "ValidationError"
ErrorLocs == {raised.errors[i].loc : i \in 1..Len(raised.errors)}

Without(env_vars, v) == [k \in DOMAIN env_vars \ {v} |-> env_vars[k]]

(***************************************************************************)
(* Properties.                                                             *)
(***************************************************************************)

\* C1: when a required variable of UAConfig or AuthConfig is absent,
\* constructing the group raises a validation error and binds no instance,
\* whatever the group's other variables hold.
C1_RequiredMissingFails ==
    [][ ( /\ op'.name = "construct"
          /\ cls \in {"UAConfig", "AuthConfig"}
          /\ \E n \in Required[cls] : EnvVar[cls][n] \notin DOMAIN environ )
        => (raised'.kind = "ValidationError" /\ config' = config) ]_vars

C1_Witness ==
    /\ Failed /\ cls = "UAConfig" /\ config = NoConfig
    /\ Present("UAConfig", "app_name")
    /\ "ESIPIE_UA_APP_VERSION" \notin DOMAIN environ

\* C2: when every required variable of UAConfig or AuthConfig is set to a
\* non-empty string, construction succeeds and each required field is the
\* string of its variable, unchanged.
C2_RequiredPresentVerbatim ==
    ( /\ Constructed
      /\ cls \in {"UAConfig", "AuthConfig"}
      /\ \A n \in Required[cls] : Present(cls, n) )
    => ( /\ Built
         /\ \A n \in Required[cls] : GetAttr(config, n) = Provided(cls, n) )

C2_Witness ==
    /\ Built /\ cls = "UAConfig"
    /\ Present("UAConfig", "app_name")
    /\ GetAttr(config, "app_name") = "TestApp"
    /\ GetAttr(config, "contact_email") = "test@example.com"

\* C3: an optional field whose variable is absent has its documented
\* default, and APIConfig and CacheConfig construct from an empty
\* environment.
C3_DefaultsWhenAbsent ==
    /\ (Built /\ cls \in Groups)
       => \A n \in DOMAIN Default[cls] :
             EnvVar[cls][n] \notin DOMAIN environ => GetAttr(config, n) = Default[cls][n]
    /\ (Constructed /\ cls \in {"APIConfig", "CacheConfig"} /\ DOMAIN environ = {})
       => Built

C3_Witness ==
    /\ Built /\ cls = "CacheConfig" /\ DOMAIN environ = {}
    /\ GetAttr(config, "spec_cache_duration") = 3600
    /\ GetAttr(config, "disable_cache") = FALSE

\* C4: in a constructed group every optional field whose variable is set
\* (to a non-empty value) holds that value coerced to the field's type, and
\* every other optional field holds its default: a variable changes its
\* own field only.
C4_OverridesAndFrame ==
    (Built /\ cls \in Groups)
    => \A n \in DOMAIN Default[cls] :
          IF Present(cls, n)
          THEN /\ Coercible(n, Provided(cls, n))
               /\ GetAttr(config, n) = Coerced(n, Provided(cls, n))
          ELSE GetAttr(config, n) = Default[cls][n]

C4_Witness ==
    /\ Built /\ cls = "APIConfig"
    /\ DOMAIN environ = {"ESIPIE_TIMEOUT_SECONDS"}
    /\ environ["ESIPIE_TIMEOUT_SECONDS"] = "22"
    /\ GetAttr(config, "timeout_seconds") = 22
    /\ GetAttr(config, "base_url") = "https://esi.evetech.net"

\* C5: a variable of a group set to the empty string gives the outcome
\* that removing the variable gives: an optional field takes its default, a
\* required field counts as missing and construction fails.
C5_EmptyIsAbsent ==
    /\ Constructed
       => \A v \in GroupVars \cap DOMAIN environ :
             environ[v] = ""
             => IF New(cls, Without(environ, v)).kind = "instance"
                THEN Built /\ config = New(cls, Without(environ, v))
                ELSE raised = New(cls, Without(environ, v))
    /\ (Built /\ cls \in Groups)
       => \A n \in DOMAIN Default[cls] :
             (EnvVar[cls][n] \in DOMAIN environ /\ environ[EnvVar[cls][n]] = "")
             => GetAttr(config, n) = Default[cls][n]
    /\ (Constructed /\ cls \in Groups)
       => \A n \in Required[cls] :
             (EnvVar[cls][n] \in DOMAIN environ /\ environ[EnvVar[cls][n]] = "")
             => (Failed /\ n \in ErrorLocs)

C5_Witness ==
    /\ Built /\ cls = "CacheConfig"
    /\ "ESIPIE_SPEC_CACHE_DURATION" \in DOMAIN environ
    /\ environ["ESIPIE_SPEC_CACHE_DURATION"] = ""
    /\ GetAttr(config, "spec_cache_duration") = 3600

\* C6: assigning to a frozen field of a constructed group is refused with
\* an error and leaves the instance as it was; assigning to a field that is
\* not frozen succeeds and changes that field only.
C6_FrozenFields ==
    [][ (op'.name = "setattr" /\ config.kind = "instance" /\ config.cls \in Groups)
        => IF op'.field \in Frozen[config.cls]
           THEN raised'.kind = "ValidationError" /\ config' = config
           ELSE /\ raised' = NoError
                /\ GetAttr(config', op'.field) = op'.value
                /\ \A m \in DOMAIN EnvVar[config.cls] \ {op'.field} :
                      GetAttr(config', m) = GetAttr(config, m) ]_vars

C6_Witness ==
    /\ op.name = "setattr" /\ op.field = "timeout_seconds"
    /\ raised.kind = "ValidationError"
    /\ config.kind = "instance" /\ GetAttr(config, "timeout_seconds") = 22

\* C7: Config() succeeds exactly when each of the four groups constructs on
\* the same environment, its members are then the groups' own results, and
\* it fails with a validation error when a required variable of the UA or
\* Auth group is missing.
C7_AggregateMatchesGroups ==
    (Constructed /\ cls = "Config")
    => /\ (raised = NoError) <=> (\A g \in Groups : NewGroup(g, environ).kind = "instance")
       /\ raised = NoError
          => /\ config.cls = "Config"
             /\ GetAttr(config, "api") = NewGroup("APIConfig", environ)
             /\ GetAttr(config, "auth") = NewGroup("AuthConfig", environ)
             /\ GetAttr(config, "ua") = NewGroup("UAConfig", environ)
             /\ GetAttr(config, "cache") = NewGroup("CacheConfig", environ)
       /\ (\E g \in {"UAConfig", "AuthConfig"} : \E n \in Required[g] : ~Present(g, n))
          => raised.kind = "ValidationError"

\* C8: "true" in any letter case makes disable_cache true and "false" in
\* any letter case makes it false, at every construction, whatever was
\* constructed before.
C8_BooleanAnyCase ==
    (Constructed /\ cls = "CacheConfig" /\ "ESIPIE_DISABLE_CACHE" \in DOMAIN environ)
    => /\ environ["ESIPIE_DISABLE_CACHE"] \in CaseVariants("true") \cup CaseVariants("false")
          => /\ Built \/ Failed
             /\ Failed => "disable_cache" \notin ErrorLocs
             /\ DOMAIN environ = {"ESIPIE_DISABLE_CACHE"} => Built
       /\ (Built /\ environ["ESIPIE_DISABLE_CACHE"] \in CaseVariants("true"))
          => GetAttr(config, "disable_cache") = TRUE
       /\ (Built /\ environ["ESIPIE_DISABLE_CACHE"] \in CaseVariants("false"))
          => GetAttr(config, "disable_cache") = FALSE

C8_Witness ==
    /\ Built /\ test = "TestCacheBoolean"
    /\ "ESIPIE_DISABLE_CACHE" \in DOMAIN environ
    /\ environ["ESIPIE_DISABLE_CACHE"] = "tRUe"
    /\ GetAttr(config, "disable_cache") = TRUE

\* C9: a change of the environment leaves every field of the instance
\* already constructed as it was.
C9_SnapshotAtConstruction ==
    [][ (op'.name \in {"setenv", "delenv"} /\ config.kind = "instance")
        => /\ config'.kind = "instance"
           /\ \A n \in DOMAIN config.fields : GetAttr(config', n) = GetAttr(config, n) ]_vars

C9_Witness ==
    /\ op.name = "setenv" /\ op.var = "ESIPIE_DISABLE_CACHE"
    /\ "ESIPIE_DISABLE_CACHE" \in DOMAIN environ
    /\ environ["ESIPIE_DISABLE_CACHE"] = "true"
    /\ config.kind = "instance" /\ config.cls = "CacheConfig"
    /\ GetAttr(config, "disable_cache") = FALSE

\* C10: a failed construction of a group reports every field at fault
\* (required and unset or empty, or set to a value its type rejects), each
\* once and no other, and binds no instance; with no field at fault the
\* construction succeeds.
C10_AllErrorsReported ==
    [][ (op'.name = "construct" /\ cls \in Groups)
        => IF Faulty(cls) = {}
           THEN raised' = NoError /\ config'.kind = "instance"
           ELSE /\ raised'.kind = "ValidationError"
                /\ {raised'.errors[i].loc : i \in 1..Len(raised'.errors)} = Faulty(cls)
                /\ Len(raised'.errors) = Cardinality(Faulty(cls))
                /\ config' = config ]_vars

C10_Witness ==
    /\ Failed /\ cls = "CacheConfig"
    /\ ErrorLocs = {"spec_cache_duration", "disable_cache"}
    /\ Len(raised.errors) = 2

====
